---- MODULE Spec2Model ----
(***************************************************************************)
(* Item layer of the slab-backed key/value store (storage/slab/bb_item.c). *)
(* Items live in slab chunks; the hash index and the slab allocator are    *)
(* the two collaborators the item layer calls into.                        *)
(***************************************************************************)
EXTENDS Integers, Sequences, FiniteSets, TLC

\* ------------------------------------------------------------------ bounds
MaxReq == 3         \* cap on allocation attempts (item_req + item_req_ex)
MaxCas == 3         \* cap on cas_id (a u64 in the code)
MaxRef == 1         \* cap on an item's refcount at rest (a bit field in the code)

\* ------------------------------------------------- configuration and inputs
\* payload capacity (key + value bytes) of each slab class
PayloadCap == <<2, 4>>
\* slab class of each chunk the allocator owns
ChunkClass == <<1, 1, 2, 2>>
Chunk == 1..Len(ChunkClass)
NULL == 0

Keys == {<<"a">>, <<"b">>}
Workloads == {"two keys", "expiry", "no cas"}
HugeVal == [i \in 1..PayloadCap[Len(PayloadCap)] |-> "A"]
SetVals == {<<"A">>, HugeVal}
CasVals == {<<"1">>, HugeVal}
UpdateVals == {<<"7">>, <<"7", "7">>}
Deltas == {<<"2">>}
Times == {0, 1}
NoVal == <<"-">>
Digits == {"0", "1", "2", "3", "4", "5", "6", "7", "8", "9"}

ITEM_HDR_SIZE == 32
CAS_SIZE == 8
SLABCLASS_MIN_ID == 1
SLABCLASS_MAX_ID == Len(PayloadCap)
SLABCLASS_INVALID_ID == 255

VARIABLES
    use_cas,    \* configuration: CAS tokens enabled
    now,        \* time_now()
    cas_id,     \* static uint64_t cas_id
    items,      \* item headers, one per chunk
    mem,        \* chunk bytes after the header and the CAS field
    table,      \* the hash index, as the chain assoc walks
    metrics,    \* item_metrics
    fresh,      \* chunks the slab has never handed out
    slabref,    \* slab refcount, per slab class
    held,       \* references readers hold (item_get results not yet released)
    nput,       \* slab_put_item calls on a chunk since it was last handed out
    events,     \* what happened inside operations: failed ASSERTs, reuse, expiry
    refmap,     \* reference key->value map run side by side
    workload    \* which clients run: the keys they use, whether time passes

vars == <<use_cas, now, cas_id, items, mem, table, metrics, fresh, slabref,
          held, nput, events, refmap, workload>>

\* the store state the item-layer functions thread through
S == [items |-> items, mem |-> mem, table |-> table, cas_id |-> cas_id,
      metrics |-> metrics, fresh |-> fresh, slabref |-> slabref, nput |-> nput,
      events |-> events]

Note(s, cond, name) == IF cond THEN s ELSE [s EXCEPT !.events = @ \cup {name}]

INCR_N(s, name, n) == [s EXCEPT !.metrics[name] = @ + n]
DECR_N(s, name, n) == [s EXCEPT !.metrics[name] = @ - n]
INCR(s, name) == INCR_N(s, name, 1)
DECR(s, name) == DECR_N(s, name, 1)

\* --------------------------------------------------------- slab (interface)
CasBytes(cas) == IF cas THEN CAS_SIZE ELSE 0

slab_item_size(id) == ITEM_HDR_SIZE + CasBytes(use_cas) + PayloadCap[id]

item_ntotal(klen, vlen, cas) == ITEM_HDR_SIZE + klen + vlen + CasBytes(cas)

slab_id(ntotal) ==
    LET fit == {i \in SLABCLASS_MIN_ID..SLABCLASS_MAX_ID : slab_item_size(i) >= ntotal}
    IN  IF fit = {} THEN SLABCLASS_INVALID_ID
        ELSE CHOOSE i \in fit : \A j \in fit : i <= j

item_to_slab(s, c) == s.items[c].id

slab_acquire_refcount(s, c) == [s EXCEPT !.slabref[item_to_slab(s, c)] = @ + 1]

slab_release_refcount(s, c) == [s EXCEPT !.slabref[item_to_slab(s, c)] = @ - 1]

slab_put_item(s, c, id) ==
    LET s0 == Note(Note(Note(s, ~s.items[c].is_linked, "ASSERT put is_linked"),
                        ~s.items[c].in_freeq, "ASSERT put in_freeq"),
                   s.items[c].refcount = 0, "ASSERT put refcount")
    IN  [s0 EXCEPT !.items[c].in_freeq = TRUE, !.nput[c] = @ + 1]

\* ------------------------------------------------------------- item layout
item_key_off(it) == ITEM_HDR_SIZE + CasBytes(it.has_cas)

item_data(it) ==
    IF it.is_raligned
    THEN slab_item_size(it.id) - it.vlen
    ELSE ITEM_HDR_SIZE + it.klen + CasBytes(it.has_cas)

ReadBytes(s, c, off, n) ==
    [i \in 1..n |-> IF (off + i - 1) \in DOMAIN s.mem[c]
                    THEN s.mem[c][off + i - 1] ELSE "?"]

cc_memcpy(s, c, off, bytes) ==
    LET dom == DOMAIN s.mem[c]
        inside == \A i \in 1..Len(bytes) : (off + i - 1) \in dom
        s1 == [s EXCEPT !.mem[c] =
                  [o \in dom |-> IF o >= off /\ o < off + Len(bytes)
                                 THEN bytes[o - off + 1] ELSE @[o]]]
    IN  Note(s1, inside, "write outside chunk")

item_key(s, c) == ReadBytes(s, c, item_key_off(s.items[c]), s.items[c].klen)

item_value(s, c) == ReadBytes(s, c, item_data(s.items[c]), s.items[c].vlen)

item_get_cas(it) == IF it.has_cas THEN it.cas ELSE 0

item_set_cas(s, c, cas) ==
    IF s.items[c].has_cas THEN [s EXCEPT !.items[c].cas = cas] ELSE s

\* ---------------------------------------------------- hash index (interface)
RECURSIVE ChainFind(_, _, _)
ChainFind(s, chain, key) ==
    IF chain = <<>> THEN NULL
    ELSE IF item_key(s, Head(chain)) = key THEN Head(chain)
    ELSE ChainFind(s, Tail(chain), key)

RECURSIVE ChainRemove(_, _, _)
ChainRemove(s, chain, key) ==
    IF chain = <<>> THEN <<>>
    ELSE IF item_key(s, Head(chain)) = key THEN Tail(chain)
    ELSE <<Head(chain)>> \o ChainRemove(s, Tail(chain), key)

assoc_get(s, key) == ChainFind(s, s.table, key)

assoc_put(s, c) == [s EXCEPT !.table = <<c>> \o @]

assoc_delete(s, key) == [s EXCEPT !.table = ChainRemove(s, @, key)]

\* ------------------------------------------------------------- bb_item.c
\* variant: hands out the current counter without advancing it
_item_next_cas_stale(s) ==
    [s |-> s, cas |-> IF use_cas THEN s.cas_id ELSE 0]

_item_next_cas(s) ==
    IF use_cas
    THEN [s |-> [s EXCEPT !.cas_id = @ + 1], cas |-> s.cas_id + 1]
    ELSE [s |-> s, cas |-> 0]

item_hdr_init(s, c, id) ==
    [s EXCEPT !.items[c].id = id,
              !.items[c].refcount = 0,
              !.items[c].is_linked = FALSE,
              !.items[c].has_cas = FALSE,
              !.items[c].in_freeq = FALSE,
              !.items[c].is_raligned = FALSE]

\* variant: sizes the item without its key
item_slabid_nokey(klen, vlen) == slab_id(item_ntotal(0, vlen, use_cas))

item_slabid(klen, vlen) == slab_id(item_ntotal(klen, vlen, use_cas))

_item_free(s, c) == INCR(slab_put_item(s, c, s.items[c].id), "item_remove")

_item_acquire_refcount(s, c) ==
    slab_acquire_refcount([s EXCEPT !.items[c].refcount = @ + 1], c)

\* variant: drops the reference and never frees
_item_release_refcount_nofree(s, c) ==
    IF s.items[c].refcount # 0
    THEN slab_release_refcount([s EXCEPT !.items[c].refcount = @ - 1], c)
    ELSE s

\* variant: frees at refcount 0 without looking at is_linked
_item_release_refcount_linked(s, c) ==
    LET s1 == IF s.items[c].refcount # 0
              THEN slab_release_refcount([s EXCEPT !.items[c].refcount = @ - 1], c)
              ELSE s
    IN  IF s1.items[c].refcount = 0 /\ ~s1.items[c].in_freeq
        THEN _item_free(s1, c)
        ELSE s1

_item_release_refcount(s, c) ==
    LET s0 == Note(s, ~s.items[c].in_freeq, "ASSERT release in_freeq")
        s1 == IF s0.items[c].refcount # 0
              THEN slab_release_refcount([s0 EXCEPT !.items[c].refcount = @ - 1], c)
              ELSE s0
    IN  IF s1.items[c].refcount = 0 /\ ~s1.items[c].is_linked
        THEN _item_free(s1, c)
        ELSE s1

\* variant: clears the flag and leaves the index entry behind
item_reuse_keepentry(s, c) ==
    [s EXCEPT !.items[c].is_linked = FALSE, !.events = @ \cup {"reuse"}]

item_reuse(s, c) ==
    LET s0 == Note(Note(Note(s, ~s.items[c].in_freeq, "ASSERT reuse in_freeq"),
                        s.items[c].is_linked, "ASSERT reuse is_linked"),
                   s.items[c].refcount = 0, "ASSERT reuse refcount")
        s1 == [s0 EXCEPT !.items[c].is_linked = FALSE,
                         !.events = @ \cup {"reuse"}]
    IN  assoc_delete(s1, item_key(s1, c))

\* slab_get_item: a free chunk of the class if there is one (never handed out,
\* or in the free queue); otherwise the allocator evicts a linked item nobody
\* references (item_reuse) and hands its chunk out again, or gives up (NULL).
SlabFree(s, id) ==
    {c \in Chunk : ChunkClass[c] = id /\ (c \in s.fresh \/ s.items[c].in_freeq)}

SlabEvictable(s, id) ==
    {c \in Chunk : /\ ChunkClass[c] = id
                   /\ c \notin s.fresh
                   /\ s.items[c].is_linked
                   /\ ~s.items[c].in_freeq
                   /\ s.items[c].refcount = 0}

SlabChoices(s, id) ==
    IF SlabFree(s, id) # {}
    THEN {CHOOSE c \in SlabFree(s, id) : \A d \in SlabFree(s, id) : c <= d}
    ELSE SlabEvictable(s, id) \cup {NULL}

slab_get_item(s, id, pick) ==
    IF pick = NULL THEN s
    ELSE IF pick \in s.fresh
    THEN [item_hdr_init(s, pick, id) EXCEPT !.fresh = @ \ {pick}, !.nput[pick] = 0]
    ELSE IF s.items[pick].in_freeq
    THEN [s EXCEPT !.items[pick].in_freeq = FALSE, !.nput[pick] = 0]
    ELSE [item_hdr_init(item_reuse(s, pick), pick, id) EXCEPT !.nput[pick] = 0]

\* item_alloc once slab_get_item has answered with chunk `it` (or NULL)
alloc_done(g, key, exptime, vlen, id, it) ==
    IF it = NULL
    THEN [s |-> INCR(g, "item_req_ex"), status |-> "ITEM_ENOMEM", it |-> NULL]
    ELSE LET i == g.items[it]
             g0 == Note(Note(Note(Note(g, i.id = id, "ASSERT alloc id"),
                                  ~i.is_linked, "ASSERT alloc is_linked"),
                             ~i.in_freeq, "ASSERT alloc in_freeq"),
                        i.refcount = 0, "ASSERT alloc refcount")
             g1 == _item_acquire_refcount(g0, it)
             g2 == [g1 EXCEPT !.items[it].has_cas = use_cas,
                              !.items[it].is_raligned = FALSE,
                              !.items[it].vlen = vlen,
                              !.items[it].exptime = exptime,
                              !.items[it].klen = Len(key)]
             g3 == cc_memcpy(g2, it, item_key_off(g2.items[it]), key)
             g4 == item_set_cas(g3, it, 0)
         IN  [s |-> INCR(g4, "item_req"), status |-> "ITEM_OK", it |-> it]

\* variant: counts an oversized request as a failed allocation
item_alloc_countex(s, key, exptime, vlen) ==
    LET id == slab_id(item_ntotal(Len(key), vlen, use_cas))
    IN  IF id = SLABCLASS_INVALID_ID
        THEN {[s |-> INCR(s, "item_req_ex"), status |-> "ITEM_EOVERSIZED", it |-> NULL]}
        ELSE {alloc_done(slab_get_item(s, id, pick), key, exptime, vlen, id, pick) :
                 pick \in SlabChoices(s, id)}

\* the outcomes of item_alloc, one for each answer the allocator may give
item_alloc(s, key, exptime, vlen) ==
    LET id == slab_id(item_ntotal(Len(key), vlen, use_cas))
    IN  IF id = SLABCLASS_INVALID_ID
        THEN {[s |-> s, status |-> "ITEM_EOVERSIZED", it |-> NULL]}
        ELSE {alloc_done(slab_get_item(s, id, pick), key, exptime, vlen, id, pick) :
                 pick \in SlabChoices(s, id)}

\* variant: links without assigning a fresh token
_item_link_keepcas(s, c) ==
    LET s1 == assoc_put([s EXCEPT !.items[c].is_linked = TRUE], c)
        s2 == INCR(INCR(s1, "item_link"), "item_curr")
        s3 == INCR_N(s2, "item_keyval_byte", s2.items[c].klen + s2.items[c].vlen)
    IN  INCR_N(s3, "item_val_byte", s3.items[c].vlen)

_item_link(s, c) ==
    LET s0 == Note(Note(s, ~s.items[c].is_linked, "ASSERT link is_linked"),
                   ~s.items[c].in_freeq, "ASSERT link in_freeq")
        n == _item_next_cas([s0 EXCEPT !.items[c].is_linked = TRUE])
        s1 == assoc_put(item_set_cas(n.s, c, n.cas), c)
        s2 == INCR(INCR(s1, "item_link"), "item_curr")
        s3 == INCR_N(s2, "item_keyval_byte", s2.items[c].klen + s2.items[c].vlen)
        s4 == INCR_N(s3, "item_val_byte", s3.items[c].vlen)
    IN  Note(s4, \A d \in Chunk \ {c} :
                    ~(s4.items[d].is_linked /\ item_key(s4, d) = item_key(s4, c)),
             "two linked items share a key")

\* variant: frees the item at unlink whatever its refcount
_item_unlink_freealways(s, c) ==
    LET s1 == DECR(INCR(s, "item_unlink"), "item_curr")
        s2 == DECR_N(s1, "item_keyval_byte", s1.items[c].klen + s1.items[c].vlen)
        s3 == DECR_N(s2, "item_val_byte", s2.items[c].vlen)
    IN  IF s3.items[c].is_linked
        THEN _item_free(assoc_delete([s3 EXCEPT !.items[c].is_linked = FALSE],
                                     item_key(s3, c)), c)
        ELSE s3

_item_unlink(s, c) ==
    LET s0 == Note(s, s.items[c].is_linked, "unlink of an unlinked item")
        s1 == DECR(INCR(s0, "item_unlink"), "item_curr")
        s2 == DECR_N(s1, "item_keyval_byte", s1.items[c].klen + s1.items[c].vlen)
        s3 == DECR_N(s2, "item_val_byte", s2.items[c].vlen)
    IN  IF s3.items[c].is_linked
        THEN LET s4 == assoc_delete([s3 EXCEPT !.items[c].is_linked = FALSE],
                                    item_key(s3, c))
             IN  IF s4.items[c].refcount = 0 THEN _item_free(s4, c) ELSE s4
        ELSE s3

\* variant: unlinks the old item a second time before linking the new one
_item_relink_twice(s, c, n) == _item_link(_item_unlink(_item_unlink(s, c), c), n)

\* variant: links the new item and leaves the old one linked
_item_relink_nounlink(s, c, n) == _item_link(s, n)

_item_relink(s, c, n) ==
    LET s0 == Note(Note(s, ~s.items[c].in_freeq, "ASSERT relink in_freeq"),
                   ~s.items[n].in_freeq, "ASSERT relink in_freeq")
    IN  _item_link(_item_unlink(s0, c), n)

\* variant: expires only strictly after exptime
item_get_strict(s, key) ==
    LET it == assoc_get(s, key)
    IN  IF it = NULL THEN [s |-> s, it |-> NULL]
        ELSE IF s.items[it].exptime # 0 /\ s.items[it].exptime < now
        THEN [s |-> [_item_unlink(s, it) EXCEPT !.events = @ \cup {"expire"}],
              it |-> NULL]
        ELSE [s |-> _item_acquire_refcount(s, it), it |-> it]

item_get(s, key) ==
    LET it == assoc_get(s, key)
    IN  IF it = NULL THEN [s |-> s, it |-> NULL]
        ELSE IF s.items[it].exptime # 0 /\ s.items[it].exptime <= now
        THEN [s |-> [_item_unlink(s, it) EXCEPT !.events = @ \cup {"expire"}],
              it |-> NULL]
        ELSE [s |-> _item_acquire_refcount(s, it), it |-> it]

\* bstring_atou64 succeeds on a non-empty run of decimal digits
bstring_atou64_ok(val) == Len(val) > 0 /\ \A i \in 1..Len(val) : val[i] \in Digits

item_check_type(s, c) ==
    [s EXCEPT !.items[c].vtype =
        IF bstring_atou64_ok(item_value(s, c)) THEN "V_INT" ELSE "V_STR"]

\* item_set after item_alloc returned `a`
item_set_store(a, key, val) ==
    IF a.status # "ITEM_OK"
    THEN [s |-> a.s, status |-> a.status]
    ELSE LET it == a.it
             s1 == cc_memcpy(a.s, it, item_data(a.s.items[it]), val)
             s2 == item_check_type(s1, it)
             g == item_get(s2, key)
             s3 == IF g.it = NULL
                   THEN _item_link(g.s, it)
                   ELSE _item_release_refcount(_item_relink(g.s, g.it, it), g.it)
         IN  [s |-> _item_release_refcount(s3, it), status |-> "ITEM_OK"]

item_set(s, key, val, exptime) ==
    {item_set_store(a, key, val) : a \in item_alloc(s, key, exptime, Len(val))}

\* item_cas after item_alloc returned `a`, old item oit matched
item_cas_store(a, oit, val, cas) ==
    IF a.status # "ITEM_OK"
    THEN [s |-> a.s, status |-> a.status]
    ELSE LET it == a.it
             s1 == item_set_cas(a.s, it, cas)
             s2 == cc_memcpy(s1, it, item_data(s1.items[it]), val)
             s3 == item_check_type(s2, it)
             s4 == _item_relink(s3, oit, it)
             s5 == _item_release_refcount(s4, oit)
         IN  [s |-> _item_release_refcount(s5, it), status |-> "ITEM_OK"]

item_cas(s, key, val, exptime, cas) ==
    LET g == item_get(s, key)
        oit == g.it
    IN  IF oit = NULL
        THEN {[s |-> g.s, status |-> "ITEM_ENOTFOUND"]}
        ELSE IF cas # item_get_cas(g.s.items[oit])
        THEN {[s |-> _item_release_refcount(g.s, oit), status |-> "ITEM_EOTHER"]}
        ELSE {item_cas_store(a, oit, val, cas) :
                 a \in item_alloc(g.s, key, exptime, Len(val))}

annex_done(s, oit, nit, ret) ==
    LET s1 == IF oit # NULL THEN _item_release_refcount(s, oit) ELSE s
        s2 == IF nit # NULL THEN _item_release_refcount(s1, nit) ELSE s1
    IN  [s |-> s2, status |-> ret]

\* variant: appends in place and keeps the old token
annex_append_inplace_keepcas(s, oit, val) ==
    LET o == s.items[oit]
        s1 == cc_memcpy(s, oit, item_data(o) + o.vlen, val)
        s2 == [s1 EXCEPT !.items[oit].vlen = o.vlen + Len(val)]
    IN  item_check_type(s2, oit)

\* item_annex, in place: the append branch on a left-aligned item with room
annex_append_inplace(s, oit, val) ==
    LET o == s.items[oit]
        s1 == cc_memcpy(s, oit, item_data(o) + o.vlen, val)
        s2 == [s1 EXCEPT !.items[oit].vlen = o.vlen + Len(val)]
        n == _item_next_cas(s2)
    IN  item_check_type(item_set_cas(n.s, oit, n.cas), oit)

\* variant: prepends at the old start of the payload
annex_prepend_inplace_at(s, oit, val) ==
    LET o == s.items[oit]
        s1 == cc_memcpy(s, oit, item_data(o), val)
        s2 == [s1 EXCEPT !.items[oit].vlen = o.vlen + Len(val)]
        s3 == item_check_type(s2, oit)
        n == _item_next_cas(s3)
    IN  item_set_cas(n.s, oit, n.cas)

\* item_annex, in place: the prepend branch on a right-aligned item with room
annex_prepend_inplace(s, oit, val) ==
    LET o == s.items[oit]
        s1 == cc_memcpy(s, oit, item_data(o) - Len(val), val)
        s2 == [s1 EXCEPT !.items[oit].vlen = o.vlen + Len(val)]
        s3 == item_check_type(s2, oit)
        n == _item_next_cas(s3)
    IN  item_set_cas(n.s, oit, n.cas)

\* variant: a prepend into a new item leaves it left-aligned
annex_realloc_leftaligned(a, oit, val, append) ==
    LET nit == a.it
        o == a.s.items[oit]
    IN  IF a.status # "ITEM_OK"
        THEN annex_done(a.s, oit, NULL, a.status)
        ELSE IF append
        THEN LET s1 == cc_memcpy(a.s, nit, item_data(a.s.items[nit]),
                                 item_value(a.s, oit))
                 s2 == cc_memcpy(s1, nit, item_data(s1.items[nit]) + o.vlen, val)
                 s3 == item_check_type(s2, nit)
             IN  annex_done(_item_relink(s3, oit, nit), oit, nit, "ITEM_OK")
        ELSE LET s1 == cc_memcpy(a.s, nit, item_data(a.s.items[nit]) + Len(val),
                                 item_value(a.s, oit))
                 s2 == cc_memcpy(s1, nit, item_data(s1.items[nit]), val)
                 s3 == item_check_type(s2, nit)
             IN  annex_done(_item_relink(s3, oit, nit), oit, nit, "ITEM_OK")

\* item_annex, new item: after item_alloc returned `a`
annex_realloc(a, oit, val, append) ==
    LET nit == a.it
        o == a.s.items[oit]
    IN  IF a.status # "ITEM_OK"
        THEN annex_done(a.s, oit, NULL, a.status)
        ELSE IF append
        THEN LET s1 == cc_memcpy(a.s, nit, item_data(a.s.items[nit]),
                                 item_value(a.s, oit))
                 s2 == cc_memcpy(s1, nit, item_data(s1.items[nit]) + o.vlen, val)
                 s3 == item_check_type(s2, nit)
             IN  annex_done(_item_relink(s3, oit, nit), oit, nit, "ITEM_OK")
        ELSE LET s0 == [a.s EXCEPT !.items[nit].is_raligned = TRUE]
                 s1 == cc_memcpy(s0, nit, item_data(s0.items[nit]) + Len(val),
                                 item_value(s0, oit))
                 s2 == cc_memcpy(s1, nit, item_data(s1.items[nit]), val)
                 s3 == item_check_type(s2, nit)
             IN  annex_done(_item_relink(s3, oit, nit), oit, nit, "ITEM_OK")

item_annex(s, key, val, append) ==
    LET g == item_get(s, key)
        oit == g.it
    IN  IF oit = NULL
        THEN {annex_done(g.s, NULL, NULL, "ITEM_ENOTFOUND")}
        ELSE
        LET o == g.s.items[oit]
            total_nbyte == o.vlen + Len(val)
            id == item_slabid(Len(key), total_nbyte)
        IN  IF id = SLABCLASS_INVALID_ID
            THEN {annex_done(g.s, oit, NULL, "ITEM_EOVERSIZED")}
            ELSE IF append /\ id = o.id /\ ~o.is_raligned
            THEN {annex_done(annex_append_inplace(g.s, oit, val), oit, NULL, "ITEM_OK")}
            ELSE IF ~append /\ id = o.id /\ o.is_raligned
            THEN {annex_done(annex_prepend_inplace(g.s, oit, val), oit, NULL, "ITEM_OK")}
            ELSE {annex_realloc(a, oit, val, append) :
                     a \in item_alloc(g.s, key, o.exptime, total_nbyte)}

\* variant: a successful update also assigns a fresh token
item_update_newcas(s, c, val) ==
    IF item_slabid(s.items[c].klen, Len(val)) # s.items[c].id
    THEN [s |-> s, status |-> "ITEM_EOVERSIZED"]
    ELSE LET s1 == [s EXCEPT !.items[c].vlen = Len(val)]
             s2 == item_check_type(cc_memcpy(s1, c, item_data(s1.items[c]), val), c)
             n == _item_next_cas(s2)
         IN  [s |-> item_set_cas(n.s, c, n.cas), status |-> "ITEM_OK"]

\* variant: refuses only a value that needs a larger class
item_update_fits(s, c, val) ==
    IF item_slabid(s.items[c].klen, Len(val)) > s.items[c].id
    THEN [s |-> s, status |-> "ITEM_EOVERSIZED"]
    ELSE LET s1 == [s EXCEPT !.items[c].vlen = Len(val)]
             s2 == cc_memcpy(s1, c, item_data(s1.items[c]), val)
         IN  [s |-> item_check_type(s2, c), status |-> "ITEM_OK"]

item_update(s, c, val) ==
    IF item_slabid(s.items[c].klen, Len(val)) # s.items[c].id
    THEN [s |-> s, status |-> "ITEM_EOVERSIZED"]
    ELSE LET s1 == [s EXCEPT !.items[c].vlen = Len(val)]
             s2 == cc_memcpy(s1, c, item_data(s1.items[c]), val)
         IN  [s |-> item_check_type(s2, c), status |-> "ITEM_OK"]

\* variant: reports success without unlinking
item_delete_nounlink(s, key) ==
    LET g == item_get(s, key)
    IN  IF g.it # NULL
        THEN [s |-> _item_release_refcount(g.s, g.it), status |-> "ITEM_OK"]
        ELSE [s |-> g.s, status |-> "ITEM_ENOTFOUND"]

item_delete(s, key) ==
    LET g == item_get(s, key)
    IN  IF g.it # NULL
        THEN [s |-> _item_release_refcount(_item_unlink(g.s, g.it), g.it),
              status |-> "ITEM_OK"]
        ELSE [s |-> g.s, status |-> "ITEM_ENOTFOUND"]

\* ---------------------------------------------------------------- actions
MetricNames == {"item_req", "item_req_ex", "item_link", "item_unlink",
                "item_remove", "item_curr", "item_keyval_byte", "item_val_byte"}

item_setup ==
    /\ use_cas = (workload # "no cas")
    /\ cas_id = 0
    /\ table = <<>>
    /\ metrics = [m \in MetricNames |-> 0]

slab_setup ==
    /\ fresh = Chunk
    /\ slabref = [id \in SLABCLASS_MIN_ID..SLABCLASS_MAX_ID |-> 0]
    /\ items = [c \in Chunk |->
                  [id |-> ChunkClass[c], refcount |-> 0, is_linked |-> FALSE,
                   has_cas |-> FALSE, in_freeq |-> FALSE, is_raligned |-> FALSE,
                   klen |-> 0, vlen |-> 0, exptime |-> 0, vtype |-> "V_STR",
                   cas |-> 0]]
    /\ mem = [c \in Chunk |->
                [o \in (ITEM_HDR_SIZE + CasBytes(use_cas))
                       ..(slab_item_size(ChunkClass[c]) - 1) |-> "."]]

KeysOf(w) == IF w = "two keys" THEN Keys ELSE {<<"a">>}

TimesOf(w) == IF w = "expiry" THEN Times ELSE {0}

Init ==
    /\ workload \in Workloads
    /\ item_setup
    /\ slab_setup
    /\ now = 0
    /\ held = [c \in Chunk |-> 0]
    /\ nput = [c \in Chunk |-> 0]
    /\ events = {}
    /\ refmap = [k \in Keys |-> NoVal]

Bounded(s) ==
    /\ s.cas_id <= MaxCas
    /\ s.metrics["item_req"] + s.metrics["item_req_ex"] <= MaxReq
    /\ \A c \in Chunk : s.items[c].refcount <= MaxRef

Commit(s) ==
    /\ Bounded(s)
    /\ items' = s.items
    /\ mem' = s.mem
    /\ table' = s.table
    /\ cas_id' = s.cas_id
    /\ metrics' = s.metrics
    /\ fresh' = s.fresh
    /\ slabref' = s.slabref
    /\ nput' = s.nput
    /\ events' = s.events

\* a failed call that leaves the store as it was is a stuttering step, which
\* [][Next]_vars allows anyway: the actions need not generate it
Moves(r) == r.s # S \/ r.status = "ITEM_OK"

Set(key, val, exptime) ==
    \E r \in item_set(S, key, val, exptime) :
        /\ Moves(r)
        /\ Commit(r.s)
        /\ refmap' = IF r.status = "ITEM_OK" THEN [refmap EXCEPT ![key] = val]
                     ELSE refmap
        /\ UNCHANGED <<use_cas, now, held, workload>>

Cas(key, val, exptime, cas) ==
    \E r \in item_cas(S, key, val, exptime, cas) :
        /\ Moves(r)
        /\ Commit(r.s)
        /\ refmap' = IF r.status = "ITEM_OK" THEN [refmap EXCEPT ![key] = val]
                     ELSE refmap
        /\ UNCHANGED <<use_cas, now, held, workload>>

Annex(key, val, append) ==
    \E r \in item_annex(S, key, val, append) :
        /\ Moves(r)
        /\ Commit(r.s)
        /\ refmap' = IF r.status = "ITEM_OK"
                     THEN [refmap EXCEPT ![key] = IF append THEN @ \o val ELSE val \o @]
                     ELSE refmap
        /\ UNCHANGED <<use_cas, now, held, workload>>

\* a reader rewrites, in place, an item it holds a reference to
Update(c, val) ==
    LET r == item_update(S, c, val)
    IN  /\ held[c] > 0
        /\ Moves(r)
        /\ Commit(r.s)
        /\ refmap' = IF r.status = "ITEM_OK" /\ items[c].is_linked
                     THEN [refmap EXCEPT ![item_key(S, c)] = val]
                     ELSE refmap
        /\ UNCHANGED <<use_cas, now, held, workload>>

Delete(key) ==
    LET r == item_delete(S, key)
    IN  /\ Moves(r)
        /\ Commit(r.s)
        /\ refmap' = IF r.status = "ITEM_OK" THEN [refmap EXCEPT ![key] = NoVal]
                     ELSE refmap
        /\ UNCHANGED <<use_cas, now, held, workload>>

\* a reader calls item_get and keeps the reference it is handed
Get(key) ==
    LET r == item_get(S, key)
    IN  /\ r.s # S
        /\ Commit(r.s)
        /\ held' = IF r.it = NULL THEN held ELSE [held EXCEPT ![r.it] = @ + 1]
        /\ UNCHANGED <<use_cas, now, refmap, workload>>

\* a reader gives back a reference it holds
Release(c) ==
    /\ held[c] > 0
    /\ Commit(_item_release_refcount(S, c))
    /\ held' = [held EXCEPT ![c] = @ - 1]
    /\ UNCHANGED <<use_cas, now, refmap, workload>>

Tick ==
    /\ (now + 1) \in TimesOf(workload)
    /\ now' = now + 1
    /\ UNCHANGED <<use_cas, cas_id, items, mem, table, metrics, fresh, slabref,
                   held, nput, events, refmap, workload>>

CasTimes == {0}

Next ==
    \/ \E k \in KeysOf(workload), v \in SetVals, e \in TimesOf(workload) : Set(k, v, e)
    \/ \E k \in KeysOf(workload), v \in CasVals, e \in CasTimes, t \in 0..cas_id :
           Cas(k, v, e, t)
    \/ \E k \in KeysOf(workload), d \in Deltas, a \in BOOLEAN : Annex(k, d, a)
    \/ \E c \in Chunk, v \in UpdateVals : Update(c, v)
    \/ \E k \in KeysOf(workload) : Delete(k)
    \/ \E k \in KeysOf(workload) : Get(k)
    \/ \E c \in Chunk : Release(c)
    \/ Tick

Spec == Init /\ [][Next]_vars

\* ------------------------------------------------------------ properties
Exists(c) == c \notin fresh /\ ~items[c].in_freeq

Expired(it) == it.exptime # 0 /\ it.exptime <= now

Entries(c) == Cardinality({i \in 1..Len(table) : table[i] = c})

\* what get(key) hands back in store s: the value, or NoVal for null
GetValue(s, key) ==
    LET g == item_get(s, key)
    IN  IF g.it = NULL THEN NoVal ELSE item_value(g.s, g.it)

GetCas(s, key) ==
    LET g == item_get(s, key)
    IN  IF g.it = NULL THEN 0 - 1 ELSE item_get_cas(g.s.items[g.it])

AllTokens == 0..(MaxCas + 1)

\* C1: in every reachable state, and at every link inside an operation, at most
\* one linked item carries a given key.
C1_KeyUniqueness ==
    /\ \A c, d \in Chunk :
          (c # d /\ items[c].is_linked /\ items[d].is_linked)
              => item_key(S, c) # item_key(S, d)
    /\ "two linked items share a key" \notin events

\* C1 witness: a key was relinked: its old item is retired but still held by a
\* reader, its new item is linked.
C1_Witness ==
    \E c, d \in Chunk :
        /\ c # d /\ Exists(c) /\ Exists(d)
        /\ items[c].is_linked /\ ~items[d].is_linked /\ held[d] > 0
        /\ item_key(S, c) = item_key(S, d)

\* C2: at rest, an item is linked iff the hash index holds exactly one entry
\* pointing to it and a lookup of its key finds it; an unlinked item has none.
C2_IndexConsistency ==
    \A c \in Chunk :
        /\ items[c].is_linked <=> (Entries(c) = 1 /\ assoc_get(S, item_key(S, c)) = c)
        /\ ~items[c].is_linked => Entries(c) = 0

\* C2 witness: after an eviction (item_reuse) and an unlink, linked and retired
\* items coexist.
C2_Witness ==
    /\ "reuse" \in events
    /\ metrics["item_unlink"] > 0
    /\ \E c \in Chunk : items[c].is_linked
    /\ \E c \in Chunk : c \notin fresh /\ ~items[c].is_linked

\* C3: set, cas, annex and delete return, with any result code, leaving every
\* item that still exists with the refcount it had before the call.
C3_RefcountNeutral ==
    LET Neutral(r) == \A c \in Chunk :
            (c \notin r.s.fresh /\ ~r.s.items[c].in_freeq)
                => r.s.items[c].refcount = items[c].refcount
    IN  /\ \A k \in Keys, v \in SetVals, e \in Times :
              \A r \in item_set(S, k, v, e) : Neutral(r)
        /\ \A k \in Keys, v \in CasVals, e \in CasTimes, t \in AllTokens :
              \A r \in item_cas(S, k, v, e, t) : Neutral(r)
        /\ \A k \in Keys, d \in Deltas, a \in BOOLEAN :
              \A r \in item_annex(S, k, d, a) : Neutral(r)
        /\ \A k \in Keys : Neutral(item_delete(S, k))

PutAsserts == {"ASSERT put is_linked", "ASSERT put in_freeq", "ASSERT put refcount"}

FreeqAsserts == {"ASSERT release in_freeq", "ASSERT link in_freeq",
                 "ASSERT relink in_freeq", "ASSERT reuse in_freeq"}

C5_FreeqExclusion ==
    /\ \A c \in Chunk :
          items[c].in_freeq =>
              (~items[c].is_linked /\ items[c].refcount = 0 /\ held[c] = 0)
    /\ events \cap FreeqAsserts = {}

\* C5 witness: a chunk went through the free queue and was handed out again,
\* while another sits in the queue.
C5_Witness ==
    /\ \E c \in Chunk : items[c].in_freeq
    /\ \E d \in Chunk : items[d].is_linked
    /\ metrics["item_remove"] >= 2

NoExpiration ==
    /\ "expire" \notin events
    /\ \A c \in Chunk : items[c].is_linked => ~Expired(items[c])

MapAgrees ==
    /\ \A k \in Keys : GetValue(S, k) = refmap[k]
    /\ \A k \in Keys :
          (item_delete(S, k).status = "ITEM_ENOTFOUND") <=> (refmap[k] = NoVal)

\* C6 as stated: with no expiration, get returns for every key what the
\* reference map holds, and delete answers ITEM_ENOTFOUND exactly for absent keys.
C6_MapRefinement == NoExpiration => MapAgrees

\* C6: with no expiration and no eviction by the allocator (item_reuse), get
\* returns for every key what the reference map holds, and delete answers
\* ITEM_ENOTFOUND exactly for the keys the map lacks.
C6_MapRefinementNoEviction ==
    (NoExpiration /\ "reuse" \notin events) => MapAgrees

\* C6 witness: after replacements and a delete, without expiration or eviction,
\* one key is present and the other absent.
C6_Witness ==
    /\ NoExpiration /\ "reuse" \notin events
    /\ metrics["item_unlink"] >= 2
    /\ \E k \in Keys : refmap[k] # NoVal /\ GetValue(S, k) = refmap[k]
    /\ \E k \in KeysOf(workload) : refmap[k] = NoVal /\ GetValue(S, k) = NoVal

\* C7: a successful append leaves v followed by d under the key, a successful
\* prepend d followed by v, whichever path (in place or new item) is taken.
C7_AnnexConcat ==
    \A k \in Keys, d \in Deltas, a \in BOOLEAN :
        \A r \in item_annex(S, k, d, a) :
            r.status = "ITEM_OK" =>
                GetValue(r.s, k) = IF a THEN GetValue(S, k) \o d
                                        ELSE d \o GetValue(S, k)

\* C7 witness: a right-aligned item built by a prepend into a new item and a
\* prepend in place.
C7_Witness ==
    \E c \in Chunk :
        /\ items[c].is_linked /\ items[c].is_raligned
        /\ item_value(S, c) = <<"2", "2", "A">>
        /\ refmap[item_key(S, c)] = <<"2", "2", "A">>

\* C8: get on a linked item with exptime # 0 and exptime <= now returns null
\* and unlinks it (item_curr drops by one); a later get of the key returns null
\* and changes nothing; an item with exptime 0, or not yet due, is returned.
C8_LazyExpiration ==
    \A k \in Keys :
        LET it == assoc_get(S, k)
            g == item_get(S, k)
            g2 == item_get(g.s, k)
        IN  it # NULL =>
              /\ Expired(items[it]) =>
                    /\ g.it = NULL
                    /\ ~g.s.items[it].is_linked
                    /\ assoc_get(g.s, k) = NULL
                    /\ g.s.metrics["item_curr"] = metrics["item_curr"] - 1
                    /\ g2.it = NULL
                    /\ g2.s = g.s
              /\ ~Expired(items[it]) => g.it = it /\ g.s.items[it].is_linked
              /\ items[it].exptime = 0 => g.it = it

\* C8 witness: one get has lazily expired an item, and another expired item is
\* linked again, waiting for its get.
C8_Witness ==
    /\ "expire" \in events
    /\ \E c \in Chunk : items[c].is_linked /\ Expired(items[c])

Live(k) == assoc_get(S, k) # NULL /\ ~Expired(items[assoc_get(S, k)])

\* C9: with use_cas on, cas succeeds only on the current token of a linked,
\* unexpired item; any other token gives ITEM_EOTHER and an absent or expired
\* key ITEM_ENOTFOUND; after a success the same token is refused with
\* ITEM_EOTHER and the store keeps the value.
C9_CasConsumed ==
    use_cas =>
    \A k \in Keys, v \in CasVals, e \in CasTimes, t \in AllTokens :
        \A r \in item_cas(S, k, v, e, t) :
            /\ r.status = "ITEM_OK" =>
                  Live(k) /\ t = item_get_cas(items[assoc_get(S, k)])
            /\ (Live(k) /\ t # item_get_cas(items[assoc_get(S, k)])) =>
                  r.status = "ITEM_EOTHER"
            /\ ~Live(k) => r.status = "ITEM_ENOTFOUND"
            /\ r.status = "ITEM_OK" =>
                  \A v2 \in CasVals : \A r2 \in item_cas(r.s, k, v2, e, t) :
                      /\ r2.status = "ITEM_EOTHER"
                      /\ GetValue(r2.s, k) = GetValue(r.s, k)

\* C9 witness: a state from which a cas succeeds and the same token is then
\* refused.
C9_Witness ==
    /\ use_cas
    /\ \E k \in Keys, v \in CasVals, t \in AllTokens :
          \E r \in item_cas(S, k, v, 0, t) :
              /\ r.status = "ITEM_OK" /\ Bounded(r.s) /\ GetValue(r.s, k) = v
              /\ \E r2 \in item_cas(r.s, k, v, 0, t) : r2.status = "ITEM_EOTHER"

\* C10 as stated: after a successful cas with token t the item linked under
\* the key carries token t.
C10_CasKeepsToken ==
    \A k \in Keys, v \in CasVals, e \in CasTimes, t \in AllTokens :
        \A r \in item_cas(S, k, v, e, t) :
            r.status = "ITEM_OK" => GetCas(r.s, k) = t

\* C10: after a successful cas with token t the item linked under the key
\* carries the token _item_link generates for it: cas_id + 1, different from
\* t, with use_cas on, and 0 with use_cas off.
C10_CasFreshToken ==
    \A k \in Keys, v \in CasVals, e \in CasTimes, t \in AllTokens :
        \A r \in item_cas(S, k, v, e, t) :
            r.status = "ITEM_OK" =>
                /\ GetCas(r.s, k) = IF use_cas THEN cas_id + 1 ELSE 0
                /\ r.s.cas_id = IF use_cas THEN cas_id + 1 ELSE 0
                /\ use_cas => GetCas(r.s, k) > t

\* C10 witness: a state from which a cas with the current token succeeds and
\* the new item carries a newer token.
C10_Witness ==
    \E k \in Keys, v \in CasVals, t \in AllTokens :
        \E r \in item_cas(S, k, v, 0, t) :
            /\ r.status = "ITEM_OK" /\ Bounded(r.s)
            /\ t > 0 /\ GetCas(r.s, k) = t + 1

\* the token of the item the index holds under key in store s (-1: none)
LinkedCas(s, key) ==
    IF assoc_get(s, key) = NULL THEN 0 - 1
    ELSE item_get_cas(s.items[assoc_get(s, key)])

FreshToken(r, key) ==
    r.status = "ITEM_OK" =>
        /\ LinkedCas(r.s, key) >= 1
        /\ LinkedCas(r.s, key) > LinkedCas(S, key)
        /\ LinkedCas(r.s, key) > cas_id

\* C11: with use_cas on, no item carries a token above cas_id, and every
\* successful set, cas and annex (in place or into a new item) leaves the key's
\* linked item with a token that is at least 1, above the key's previous token
\* and above every token issued so far.
C11_CasMonotonic ==
    use_cas =>
        /\ \A c \in Chunk : item_get_cas(items[c]) <= cas_id
        /\ \A k \in Keys, v \in SetVals, e \in Times :
              \A r \in item_set(S, k, v, e) : FreshToken(r, k)
        /\ \A k \in Keys, v \in CasVals, e \in CasTimes, t \in AllTokens :
              \A r \in item_cas(S, k, v, e, t) : FreshToken(r, k)
        /\ \A k \in Keys, d \in Deltas, a \in BOOLEAN :
              \A r \in item_annex(S, k, d, a) : FreshToken(r, k)

\* C11 witness: a key whose item has been appended to in place carries the
\* newest token, and another in-place annex would raise it again.
C11_Witness ==
    /\ use_cas
    /\ \E c \in Chunk :
          /\ items[c].is_linked /\ ~items[c].is_raligned
          /\ item_value(S, c) = <<"A", "2", "2">>
          /\ item_get_cas(items[c]) = cas_id /\ cas_id >= 3

Oversized(key, val) ==
    slab_id(item_ntotal(Len(key), Len(val), use_cas)) = SLABCLASS_INVALID_ID

\* C12: a set whose key and value fit no slab class returns ITEM_EOVERSIZED and
\* leaves the whole store as it was: index, chunks, items and every counter.
C12_OversizedSetRejected ==
    \A k \in Keys, v \in SetVals, e \in Times :
        Oversized(k, v) =>
            \A r \in item_set(S, k, v, e) :
                r.status = "ITEM_EOVERSIZED" /\ r.s = S

\* C12 witness: a key holds a value, a chunk of the last class is still free,
\* and an oversized set on that key is refused.
C12_Witness ==
    \E k \in Keys :
        /\ refmap[k] # NoVal /\ assoc_get(S, k) # NULL
        /\ SlabFree(S, SLABCLASS_MAX_ID) # {}
        /\ Oversized(k, HugeVal)
        /\ \E r \in item_set(S, k, HugeVal, 0) : r.status = "ITEM_EOVERSIZED"

ClassVals == UpdateVals \cup {<<>>, <<"7", "7", "7">>, HugeVal}

\* C13: update answers ITEM_EOVERSIZED exactly when the class of (klen, new
\* length) differs from the item's class, and then changes nothing; otherwise
\* it answers ITEM_OK.
C13_UpdateOversized ==
    \A c \in Chunk, v \in ClassVals :
        Exists(c) =>
            LET r == item_update(S, c, v)
                differs == item_slabid(items[c].klen, Len(v)) # items[c].id
            IN  /\ differs => (r.status = "ITEM_EOVERSIZED" /\ r.s = S)
                /\ ~differs => r.status = "ITEM_OK"

\* C13 witness: a reader holds an item of the larger class, for which a shorter
\* value is refused and a value of its class is accepted.
C13_Witness ==
    \E c \in Chunk :
        /\ Exists(c) /\ held[c] > 0 /\ items[c].id = SLABCLASS_MAX_ID
        /\ item_update(S, c, <<"7">>).status = "ITEM_EOVERSIZED"
        /\ item_update(S, c, <<"7", "7">>).status = "ITEM_OK"

LinkedItems == {c \in Chunk : items[c].is_linked}

\* C14: at rest item_curr equals the number of linked items, after any
\* sequence of set, cas, annex, delete, get with lazy expiration, and reuse.
C14_ItemCurrGauge == metrics["item_curr"] = Cardinality(LinkedItems)

\* C15: at rest, an item that was ever handed out is unlinked with refcount 0
\* if and only if it sits in the slab free queue.
C15_FreedIffUnreferencedUnlinked ==
    \A c \in Chunk :
        c \notin fresh =>
            ((items[c].refcount = 0 /\ ~items[c].is_linked) <=> items[c].in_freeq)

\* C15 witness: one item sits in the free queue, one retired item is kept out
\* of it by a reader's reference, and one is linked and unreferenced.
C15_Witness ==
    /\ \E c \in Chunk : items[c].in_freeq /\ held[c] = 0
    /\ \E c \in Chunk :
          Exists(c) /\ ~items[c].is_linked /\ items[c].refcount > 0 /\ held[c] > 0
    /\ \E c \in Chunk : items[c].is_linked /\ items[c].refcount = 0

\* whether item_annex(key, d, append) on the live item `old` can run in place
InPlace(old, key, d, append) ==
    /\ item_slabid(Len(key), items[old].vlen + Len(d)) = items[old].id
    /\ items[old].is_raligned = ~append

\* C16: an annex runs in place (same item linked, item_req and item_link
\* unchanged, alignment unchanged) exactly when the class of the grown item is
\* the old item's class and the old item is left-aligned for an append,
\* right-aligned for a prepend; every other successful annex links a new item,
\* left-aligned for append and right-aligned for prepend; set links a
\* left-aligned item, so the first prepend after a set takes a new item.
C16_AnnexPath ==
    /\ \A k \in Keys, d \in Deltas, a \in BOOLEAN :
          \A r \in item_annex(S, k, d, a) :
              LET old == assoc_get(S, k)
                  new == assoc_get(r.s, k)
              IN  /\ (Live(k) /\ InPlace(old, k, d, a)) => r.status = "ITEM_OK"
                  /\ (r.status = "ITEM_OK" /\ InPlace(old, k, d, a)) =>
                        /\ new = old
                        /\ r.s.metrics["item_req"] = metrics["item_req"]
                        /\ r.s.metrics["item_link"] = metrics["item_link"]
                        /\ r.s.items[old].is_raligned = items[old].is_raligned
                        /\ r.s.items[old].vlen = items[old].vlen + Len(d)
                  /\ (r.status = "ITEM_OK" /\ ~InPlace(old, k, d, a)) =>
                        /\ new # NULL /\ new # old
                        /\ ~r.s.items[old].is_linked
                        /\ r.s.metrics["item_req"] = metrics["item_req"] + 1
                        /\ r.s.metrics["item_link"] = metrics["item_link"] + 1
                        /\ r.s.items[new].is_raligned = ~a
    /\ \A k \in Keys, v \in SetVals, e \in Times :
          \A r \in item_set(S, k, v, e) :
              r.status = "ITEM_OK" =>
                  /\ ~r.s.items[assoc_get(r.s, k)].is_raligned
                  /\ \A d \in Deltas : \A r2 \in item_annex(r.s, k, d, FALSE) :
                        r2.status = "ITEM_OK" =>
                            r2.s.metrics["item_req"] = r.s.metrics["item_req"] + 1

\* C16 witness: the item a first prepend allocated is right-aligned, and a
\* second prepend on it runs in place.
C16_Witness ==
    \E c \in Chunk :
        /\ items[c].is_linked /\ items[c].is_raligned
        /\ item_value(S, c) = <<"2", "A">>
        /\ \E r \in item_annex(S, item_key(S, c), <<"2">>, FALSE) :
              /\ r.status = "ITEM_OK"
              /\ r.s.metrics["item_req"] = metrics["item_req"]
              /\ assoc_get(r.s, item_key(S, c)) = c

\* C17: a successful update changes the item's value bytes, vlen and vtype and
\* nothing else: its token, flags, id, exptime, refcount and key, the index, the
\* other items and the counters stay as they were, and a cas with the token an
\* unexpired linked item had before the update is not refused as stale.
C17_UpdateFrame ==
    \A c \in Chunk, v \in ClassVals :
        Exists(c) =>
            LET r == item_update(S, c, v)
                k == item_key(S, c)
                t == item_get_cas(items[c])
            IN  r.status = "ITEM_OK" =>
                  /\ r.s.items = [items EXCEPT ![c].vlen = Len(v),
                                               ![c].vtype = r.s.items[c].vtype]
                  /\ item_value(r.s, c) = v
                  /\ item_key(r.s, c) = k
                  /\ \A d \in Chunk \ {c} : r.s.mem[d] = mem[d]
                  /\ r.s.table = table /\ r.s.cas_id = cas_id
                  /\ r.s.metrics = metrics /\ r.s.fresh = fresh
                  /\ r.s.slabref = slabref /\ r.s.nput = nput
                  /\ (items[c].is_linked /\ ~Expired(items[c])) =>
                        \A v2 \in CasVals : \A r2 \in item_cas(r.s, k, v2, 0, t) :
                            r2.status \notin {"ITEM_EOTHER", "ITEM_ENOTFOUND"}

\* C17 witness: a reader has rewritten a linked item in place; the item still
\* carries the token it was linked with and a cas with that token succeeds.
C17_Witness ==
    /\ use_cas
    /\ \E c \in Chunk :
          /\ items[c].is_linked /\ held[c] > 0
          /\ item_value(S, c) = <<"7">> /\ items[c].vtype = "V_INT"
          /\ item_get_cas(items[c]) = 1
          /\ \E r \in item_cas(S, item_key(S, c), <<"1">>, 0, 1) : r.status = "ITEM_OK"

UnlinkedOnce(s) == "unlink of an unlinked item" \notin s.events

\* C18: _item_unlink is only ever called on an item whose is_linked bit is
\* set, in every operation from every reachable state (get, set, cas, annex,
\* delete, reader release, with allocations that may evict), so the gauges are
\* never decremented for an item already unlinked; unlinks never outnumber links.
C18_UnlinkOnce ==
    /\ UnlinkedOnce(S)
    /\ metrics["item_unlink"] <= metrics["item_link"]
    /\ \A k \in Keys : UnlinkedOnce(item_get(S, k).s) /\ UnlinkedOnce(item_delete(S, k).s)
    /\ \A k \in Keys, v \in SetVals, e \in Times :
          \A r \in item_set(S, k, v, e) : UnlinkedOnce(r.s)
    /\ \A k \in Keys, v \in CasVals, e \in CasTimes, t \in AllTokens :
          \A r \in item_cas(S, k, v, e, t) : UnlinkedOnce(r.s)
    /\ \A k \in Keys, d \in Deltas, a \in BOOLEAN :
          \A r \in item_annex(S, k, d, a) : UnlinkedOnce(r.s)
    /\ \A c \in Chunk : held[c] > 0 => UnlinkedOnce(_item_release_refcount(S, c))

\* C18 witness: items have been unlinked by replacement or delete and by lazy
\* expiration, and a reader still holds an item that was unlinked under it.
C18_Witness ==
    /\ metrics["item_unlink"] >= 2
    /\ "expire" \in events
    /\ \E c \in Chunk : Exists(c) /\ ~items[c].is_linked /\ held[c] > 0

InChunk(s) == "write outside chunk" \notin s.events

\* C19: at rest every allocated item has id = slabid(klen, vlen), so header,
\* CAS field, key and value fit its chunk, and a right-aligned value starts at
\* or after the end of the key; no write of any operation, in place or not,
\* falls outside the chunk, and update and in-place annex leave the key bytes
\* alone.
C19_ClassFit ==
    /\ InChunk(S)
    /\ \A c \in Chunk :
          Exists(c) =>
              /\ items[c].id = item_slabid(items[c].klen, items[c].vlen)
              /\ item_ntotal(items[c].klen, items[c].vlen, items[c].has_cas)
                     <= slab_item_size(items[c].id)
              /\ item_data(items[c]) >= item_key_off(items[c]) + items[c].klen
              /\ item_data(items[c]) + items[c].vlen <= slab_item_size(items[c].id)
    /\ \A c \in Chunk, v \in ClassVals :
          Exists(c) =>
              /\ InChunk(item_update(S, c, v).s)
              /\ item_key(item_update(S, c, v).s, c) = item_key(S, c)
    /\ \A k \in Keys, d \in Deltas, a \in BOOLEAN :
          \A r \in item_annex(S, k, d, a) :
              /\ InChunk(r.s)
              /\ (r.status = "ITEM_OK" /\ assoc_get(r.s, k) = assoc_get(S, k)) =>
                    item_key(r.s, assoc_get(S, k)) = k

\* C19 witness: a right-aligned item that in-place prepends have grown until
\* its value starts right after its key, filling the chunk.
C19_Witness ==
    \E c \in Chunk :
        /\ Exists(c) /\ items[c].is_raligned /\ items[c].is_linked
        /\ items[c].klen + items[c].vlen = PayloadCap[items[c].id]
        /\ item_data(items[c]) = item_key_off(items[c]) + items[c].klen
        /\ metrics["item_req"] = 2

RECURSIVE SumOver(_, _)
SumOver(f, set) ==
    IF set = {} THEN 0
    ELSE LET c == CHOOSE x \in set : TRUE
         IN  f[c] + SumOver(f, set \ {c})

\* the byte gauges of store s agree with its linked items
BytesAgree(s) ==
    LET linked == {c \in Chunk : s.items[c].is_linked}
    IN  /\ s.metrics["item_val_byte"] =
               SumOver([c \in Chunk |-> s.items[c].vlen], linked)
        /\ s.metrics["item_keyval_byte"] =
               SumOver([c \in Chunk |-> s.items[c].klen + s.items[c].vlen], linked)

\* C20: at rest, after any sequence of set, cas, annex (in place or into a new
\* item), update on a linked item, delete and lazy expiration, with no eviction,
\* item_val_byte is the sum of vlen and item_keyval_byte the sum of klen + vlen
\* over the linked items.
C20_ByteGauges == "reuse" \notin events => BytesAgree(S)

====
